---- MODULE Spec2Model ----
(***************************************************************************)
(* A model of main.py: the Greenhouse report script.  The main thread      *)
(* fetches the accepted offers page by page, runs one scorecard fetch per  *)
(* offer on a thread pool, fetches the candidates in chunks of ids, joins  *)
(* the three in memory and writes one JSON file.  The Greenhouse server is *)
(* the environment: every response (status, headers, body) is chosen       *)
(* nondeterministically from small sets.                                   *)
(***************************************************************************)
EXTENDS Integers, Sequences, FiniteSets, TLC

VARIABLES
    pc,                 \* position of the main thread
    err,                \* the uncaught exception that ended the run, NoError while none
    page,               \* the local `page` of the running paginated fetch
    accepted_offers,    \* main.py:44/143
    offerLog,           \* ghost: the offers requests made, with the responses
    task,               \* the futures of the pool, in submission order
    completed,          \* main.py:157
    scorecard_data,     \* main.py:145
    n429,               \* ghost: 429 responses the server has sent so far
    limit429,           \* the 429 responses after which the server stops rate limiting
    candidate_ids,      \* main.py:168, the argument of get_greenhouse_candidates
    chunked,            \* main.py:102 chunked_candidate_ids
    ci,                 \* main.py:104 the local `i` (number of the running chunk)
    candidates,         \* main.py:103
    candLog,            \* ghost: the candidates requests made, with the responses
    candidate_data,     \* main.py:146
    candidates_to_offers, \* main.py:173
    k,                  \* number of offers the running `for offer in ...` loop has done
    scorecards_data_for_offers, \* main.py:185
    file                \* ghost: what has been written to scorecards_data.json, one element per write

vars == <<pc, err, page, accepted_offers, offerLog, task, completed,
          scorecard_data, n429, limit429, candidate_ids, chunked, ci, candidates,
          candLog, candidate_data, candidates_to_offers, k,
          scorecards_data_for_offers, file>>

(***************************************************************************)
(* Bounds of the environment.                                              *)
(***************************************************************************)
\* The candidates endpoint answers at most this many non-empty pages per chunk.
MaxCandPages == 2
\* The server sends at most this many 429 responses during one run.
Max429 == 1
\* Longest list of candidate ids handed to get_greenhouse_candidates on its own.
MaxIds == 101

(***************************************************************************)
(* Program constants.                                                      *)
(***************************************************************************)
ChunkSize == 50
MaxWorkers == 6
DefaultRetryAfter == 10
PerPage == 500
\* sys.getrecursionlimit() of the interpreter: the frames one thread may nest.
RecursionLimit == 1000

Min(a, b) == IF a < b THEN a ELSE b

RECURSIVE Flatten(_)
\* The concatenation of a sequence of sequences, in order.
Flatten(ss) == IF ss = <<>> THEN <<>> ELSE Head(ss) \o Flatten(Tail(ss))

(***************************************************************************)
(* The records of the server.  An offer's id determines the offer.         *)
(***************************************************************************)
Offer(i, a, c) == [id |-> i, application_id |-> a, candidate_id |-> c]

\* The accepted offers the server may hold, in the order it lists them: two
\* offers of one application and one of another; an offer listed twice.
OfferTables ==
    {<<Offer(1, 1, 1), Offer(2, 1, 1), Offer(3, 2, 2)>>,
     <<Offer(3, 2, 2), Offer(1, 1, 1), Offer(1, 1, 1)>>}

\* Most records the server puts on one page of the model (it is free to put
\* fewer than per_page).
PageSizes == {1, 2}

IsPrefix(s, t) == Len(s) <= Len(t) /\ SubSeq(t, 1, Len(s)) = s

\* What response.status_code can be.
Statuses == {200, 429, 500}

\* raise_for_status raising for server errors only.
RaisesForServerErrorOnly(status) == status >= 500 /\ status < 600

\* requests.Response.raise_for_status: raises for 4xx and 5xx.
RaisesForStatus(status) == status >= 400 /\ status < 600

\* The bodies the offers endpoint may answer with after it has served the
\* records `served`: the next one or two offers of a table, or nothing more.
OfferPages(served) ==
    {<<>>} \cup
    UNION {{SubSeq(t, Len(served) + 1, Len(served) + n) :
               n \in {m \in PageSizes : Len(served) + m <= Len(t)}} :
           t \in {u \in OfferTables : IsPrefix(served, u)}}

\* The offers endpoint's possible answers once it has served `served`.
OffersResponses(served) ==
    {[status |-> 200, body |-> b] : b \in OfferPages(served)}
    \cup {[status |-> s, body |-> <<>>] : s \in Statuses \ {200}}

(***************************************************************************)
(* get_greenhouse_accepted_offers (main.py:32-66).                         *)
(***************************************************************************)
\* No exception.
NoError == [type |-> "", at |-> ""]

\* An uncaught exception of type `type` ends the run; `at` is the stage of the
\* main thread that raised it.
Abort(type, at) ==
    /\ pc' = "aborted"
    /\ err' = [type |-> type, at |-> at]

\* OffersPageStep with `page += 1` forgotten.
OffersPageStepSamePage(r) ==
    /\ offerLog' = Append(offerLog, [page |-> page, per_page |-> PerPage,
                                     status |-> r.status, body |-> r.body])
    /\ IF RaisesForStatus(r.status)
       THEN /\ Abort("HTTPError", "offers")
            /\ UNCHANGED <<page, accepted_offers>>
       ELSE IF r.body = <<>>
       THEN /\ pc' = "submit"
            /\ UNCHANGED <<err, page, accepted_offers>>
       ELSE /\ accepted_offers' = accepted_offers \o r.body
            /\ UNCHANGED <<pc, err, page>>

\* One pass of the while loop: the request for `page`, then raise, break or
\* extend.
OffersPageStep(r) ==
    /\ offerLog' = Append(offerLog, [page |-> page, per_page |-> PerPage,
                                     status |-> r.status, body |-> r.body])
    /\ IF RaisesForStatus(r.status)
       THEN /\ Abort("HTTPError", "offers")
            /\ UNCHANGED <<page, accepted_offers>>
       ELSE IF r.body = <<>>
       THEN /\ pc' = "submit"
            /\ UNCHANGED <<err, page, accepted_offers>>
       ELSE /\ accepted_offers' = accepted_offers \o r.body
            /\ page' = page + 1
            /\ UNCHANGED <<pc, err>>

FetchOffersPage ==
    /\ pc = "offers"
    /\ \E r \in OffersResponses(Flatten([i \in 1..Len(offerLog) |-> offerLog[i].body])) :
          OffersPageStep(r)
    /\ UNCHANGED <<task, completed, scorecard_data, n429, limit429, candidate_ids,
                   chunked, ci, candidates, candLog, candidate_data,
                   candidates_to_offers, k, scorecards_data_for_offers, file>>

(***************************************************************************)
(* The scorecard phase (main.py:149-166) and get_greenhouse_scorecards     *)
(* (main.py:69-90).                                                        *)
(***************************************************************************)
\* Python's None.
None == "None"

\* A JSON object is a function from its keys; {} is the empty function.
EmptyDict == <<>>

HasKey(d, key) == key \in DOMAIN d

\* d with d[key] = value (dict[key] = value).
DictPut(d, key, value) ==
    [x \in DOMAIN d \cup {key} |-> IF x = key THEN value ELSE d[x]]

\* Two scorecards: one whose interviewer has a name, one whose has none.
Scorecard1 ==
    [interview |-> "onsite", interview_step |-> [name |-> "Onsite"],
     submitted_by |-> [name |-> "Ann"], interviewer |-> [name |-> "Ann"]]
Scorecard2 ==
    [interview |-> "phone", interview_step |-> [name |-> "Screen"],
     submitted_by |-> [name |-> "Bea"], interviewer |-> EmptyDict]

\* The bodies the scorecards endpoint may answer a 200 with.
ScorecardBodies == {<<>>, <<Scorecard1, Scorecard2>>}

\* The values of a Retry-After header, as the text the server sends.
RetryAfterTexts == {"3", "12"}

\* The response headers: a function from header names to their text.
RetryHeaders == {EmptyDict} \cup {[RetryAfter |-> t] : t \in RetryAfterTexts}

\* int(text) on the decimal texts of the model.
IntOfText(t) == CASE t = "3" -> 3 [] t = "12" -> 12

\* The scorecards endpoint's possible answers; the server stops sending 429
\* after limit429 of them.
ScorecardResponses ==
    {[status |-> 200, headers |-> EmptyDict, body |-> b] : b \in ScorecardBodies}
    \cup {[status |-> 500, headers |-> EmptyDict, body |-> <<>>]}
    \cup (IF n429 < limit429
          THEN {[status |-> 429, headers |-> h, body |-> <<>>] : h \in RetryHeaders}
          ELSE {})

\* RetryAfterOf never reading the header.
RetryAfterIgnoringHeader(headers) == DefaultRetryAfter

\* main.py:83: int(response.headers.get('Retry-After', 10)).
RetryAfterOf(headers) ==
    IF HasKey(headers, "RetryAfter")
    THEN IntOfText(headers["RetryAfter"])
    ELSE DefaultRetryAfter

\* time.sleep(d) suspends the thread for d seconds or longer: the durations
\* the model lets one sleep take.
SleepTimes(d) == {d, d + 1}

\* main.py:90: scorecards if scorecards else [].
ScorecardsOrEmpty(body) == IF body = <<>> THEN <<>> ELSE body

\* The future executor.submit(process_offer, application_id) returns.
\*   arg:    the application_id argument of the running call
\*   st:     queued | running | sleeping | done | failed
\*   reqs:   ghost, the application ids this task has requested, in order
\*   status, headers: the last response
\*   status, headers, body: the last response
\*   wait:   the local retry_after;  slept: ghost, how long the last sleep took
\*   naps:   ghost, how many times the task has slept
\*   result: what the call returned
\*   collected: ghost, the value of `completed` when as_completed yielded the
\*           future, 0 before
NewTask(application_id) ==
    [app |-> application_id, arg |-> application_id, st |-> "queued",
     reqs |-> <<>>, status |-> 0, headers |-> EmptyDict, body |-> <<>>,
     wait |-> 0, slept |-> 0, naps |-> 0, result |-> <<>>, collected |-> 0]

InProgress == {i \in 1..Len(task) : task[i].st \in {"running", "sleeping"}}

Finished(i) == task[i].st \in {"done", "failed"}

ScUnchanged ==
    UNCHANGED <<page, accepted_offers, offerLog, candidate_ids, chunked, ci,
                candidates, candLog, candidate_data, candidates_to_offers, k,
                scorecards_data_for_offers, file>>

\* main.py:155, one element of the comprehension: submit the next offer.
Submit ==
    /\ pc = "submit"
    /\ Len(task) < Len(accepted_offers)
    /\ task' = Append(task,
                      NewTask(accepted_offers[Len(task) + 1].application_id))
    /\ UNCHANGED <<pc, err, completed, scorecard_data, n429, limit429>>
    /\ ScUnchanged

\* main.py:157: every offer is submitted; the as_completed loop begins.
BeginCollect ==
    /\ pc = "submit"
    /\ Len(task) = Len(accepted_offers)
    /\ pc' = "collect"
    /\ completed' = 0
    /\ UNCHANGED <<err, task, scorecard_data, n429, limit429>>
    /\ ScUnchanged

\* StartTask with a pool that starts a thread for every queued task.
StartTaskUnbounded(i) ==
    /\ task[i].st = "queued"
    /\ \A j \in 1..(i - 1) : task[j].st # "queued"
    /\ task' = [task EXCEPT ![i].st = "running"]
    /\ UNCHANGED <<pc, err, completed, scorecard_data, n429, limit429>>
    /\ ScUnchanged

\* A worker of the pool takes the oldest queued task while fewer than
\* max_workers tasks are running.
StartTask(i) ==
    /\ task[i].st = "queued"
    /\ \A j \in 1..(i - 1) : task[j].st # "queued"
    /\ Cardinality(InProgress) < MaxWorkers
    /\ task' = [task EXCEPT ![i].st = "running"]
    /\ UNCHANGED <<pc, err, completed, scorecard_data, n429, limit429>>
    /\ ScUnchanged

\* AfterResponse waiting and retrying on every failing status, not only 429.
AfterResponseRetryAnyFailure(t, r) ==
    LET t1 == [t EXCEPT !.reqs = Append(t.reqs, t.arg),
                        !.status = r.status, !.headers = r.headers,
                        !.body = r.body]
    IN  IF r.status = 429 \/ RaisesForStatus(r.status)
        THEN [t1 EXCEPT !.st = "sleeping", !.wait = RetryAfterOf(r.headers)]
        ELSE [t1 EXCEPT !.st = "done", !.wait = 0, !.slept = 0,
                        !.result = ScorecardsOrEmpty(r.body)]

\* What get_greenhouse_scorecards does with response r (main.py:76-90).
AfterResponse(t, r) ==
    LET t1 == [t EXCEPT !.reqs = Append(t.reqs, t.arg),
                        !.status = r.status, !.headers = r.headers,
                        !.body = r.body]
    IN  IF r.status = 429
        THEN [t1 EXCEPT !.st = "sleeping", !.wait = RetryAfterOf(r.headers)]
        ELSE IF RaisesForStatus(r.status)
        THEN [t1 EXCEPT !.st = "failed", !.wait = 0, !.slept = 0]
        ELSE [t1 EXCEPT !.st = "done", !.wait = 0, !.slept = 0,
                        !.result = ScorecardsOrEmpty(r.body)]

\* RequestScorecards with the worker storing its result in scorecard_data
\* itself.
RequestScorecardsStoring(i) ==
    /\ task[i].st = "running"
    /\ \E r \in ScorecardResponses :
          /\ task' = [task EXCEPT ![i] = AfterResponse(task[i], r)]
          /\ n429' = IF r.status = 429 THEN n429 + 1 ELSE n429
          /\ scorecard_data' =
                IF r.status = 200
                THEN DictPut(scorecard_data, task[i].app, ScorecardsOrEmpty(r.body))
                ELSE scorecard_data
    /\ UNCHANGED <<pc, err, completed, limit429>>
    /\ ScUnchanged

\* One call of get_greenhouse_scorecards up to its sleep, return or raise.
RequestScorecards(i) ==
    /\ task[i].st = "running"
    /\ \E r \in ScorecardResponses :
          /\ task' = [task EXCEPT ![i] = AfterResponse(task[i], r)]
          /\ n429' = IF r.status = 429 THEN n429 + 1 ELSE n429
    /\ UNCHANGED <<pc, err, completed, scorecard_data, limit429>>
    /\ ScUnchanged

\* The frames of get_greenhouse_scorecards on the stack of the task's thread:
\* every retry is a call nested in the call it retries (main.py:86).
Depth(t) == t.naps + 1

\* main.py:85-86: the sleep ends and the function calls itself again. The
\* interpreter raises RecursionError in place of a call nested deeper than
\* its limit; nothing catches it up to the future, so the task has raised.
\* (The frames below and above get_greenhouse_scorecards are not counted: the
\* limit is reached no later than here.)
AfterSleep(t, d) ==
    IF Depth(t) < RecursionLimit
    THEN [t EXCEPT !.st = "running", !.slept = d, !.naps = @ + 1, !.arg = t.arg]
    ELSE [t EXCEPT !.st = "failed", !.slept = d, !.naps = @ + 1]

WakeTask(i) ==
    /\ task[i].st = "sleeping"
    /\ \E d \in SleepTimes(task[i].wait) :
          task' = [task EXCEPT ![i] = AfterSleep(task[i], d)]
    /\ UNCHANGED <<pc, err, completed, scorecard_data, n429, limit429>>
    /\ ScUnchanged

\* Collected keeping the first result stored for an application id.
CollectedKeepFirst(data, t) ==
    IF t.st = "done" /\ ~HasKey(data, t.app)
    THEN DictPut(data, t.app, t.result)
    ELSE data

\* Collected storing an empty list for a task that raised.
CollectedEmptyOnFailure(data, t) ==
    IF t.st = "done" THEN DictPut(data, t.app, t.result)
    ELSE DictPut(data, t.app, <<>>)

\* main.py:162-166: future.result() returns or raises; a raise is printed.
Collected(data, t) ==
    IF t.st = "done" THEN DictPut(data, t.app, t.result) ELSE data

\* Collect without the try/except: the exception of future.result() ends the
\* run.
CollectNoCatch(i) ==
    /\ pc = "collect"
    /\ Finished(i)
    /\ task[i].collected = 0
    /\ completed' = completed + 1
    /\ task' = [task EXCEPT ![i].collected = completed + 1]
    /\ IF task[i].st = "failed"
       THEN /\ Abort("HTTPError", "collect")
            /\ UNCHANGED scorecard_data
       ELSE /\ scorecard_data' = Collected(scorecard_data, task[i])
            /\ UNCHANGED <<pc, err>>
    /\ UNCHANGED <<n429, limit429>>
    /\ ScUnchanged

\* main.py:158-166, one pass of the as_completed loop over a finished future.
Collect(i) ==
    /\ pc = "collect"
    /\ Finished(i)
    /\ task[i].collected = 0
    /\ completed' = completed + 1
    /\ scorecard_data' = Collected(scorecard_data, task[i])
    /\ task' = [task EXCEPT ![i].collected = completed + 1]
    /\ UNCHANGED <<pc, err, n429, limit429>>
    /\ ScUnchanged

\* EndPool not waiting for the futures: the block ends once all are submitted.
EndPoolNoWait ==
    /\ pc = "collect"
    /\ pc' = "candidate_ids"
    /\ UNCHANGED <<err, task, completed, scorecard_data, n429, limit429>>
    /\ ScUnchanged

\* as_completed has yielded every future: the with block ends (main.py:166).
EndPool ==
    /\ pc = "collect"
    /\ \A i \in 1..Len(task) : task[i].collected # 0
    /\ pc' = "candidate_ids"
    /\ UNCHANGED <<err, task, completed, scorecard_data, n429, limit429>>
    /\ ScUnchanged

(***************************************************************************)
(* get_greenhouse_candidates (main.py:92-126) and its call (main.py:168).  *)
(***************************************************************************)
\* JSON null where an object is expected.
Null == [null |-> "null"]

IsNull(d) == HasKey(d, "null")

App(i, source, credited) ==
    [id |-> i, source |-> source, credited_to |-> credited,
     jobs |-> <<[name |-> "Engineer"]>>]

\* Candidate 1 as the server has it; its application 1 is listed twice, with
\* two sources, so that the first match differs from the last.
Candidate1 ==
    [id |-> 1, first_name |-> "Ada", last_name |-> "Low",
     recruiter |-> [name |-> "Rex"],
     applications |-> <<App(1, [public_name |-> "Referral"], [name |-> "Kim"]),
                        App(1, EmptyDict, Null)>>]

\* Another record with id 1: no recruiter name, no applications.
Candidate1Bare ==
    [id |-> 1, first_name |-> "Ada", last_name |-> "Low",
     recruiter |-> EmptyDict, applications |-> <<>>]

Candidate2 ==
    [id |-> 2, first_name |-> "Bo", last_name |-> "Ng",
     recruiter |-> EmptyDict,
     applications |-> <<App(2, [public_name |-> "Agency"], Null)>>]

\* The bodies the candidates endpoint may answer with.
CandidatePages == {<<>>, <<Candidate1, Candidate2>>, <<Candidate1Bare>>}

\* The candidates endpoint's possible answers to a request for page p.
CandidatesResponses(p) ==
    {[status |-> 200, body |-> b] :
        b \in (IF p > MaxCandPages THEN {<<>>} ELSE CandidatePages)}
    \cup {[status |-> s, body |-> <<>>] : s \in Statuses \ {200}}

\* range(0, n, step) as a sequence.
RangeFrom0(n, step) ==
    LET S == {i \in 0..(n - 1) : i % step = 0}
    IN  [j \in 1..Cardinality(S) |->
            CHOOSE x \in S : Cardinality({y \in S : y < x}) = j - 1]

\* The Python slice s[i:j], 0 <= i <= j.
Slice(s, i, j) == SubSeq(s, i + 1, Min(j, Len(s)))

\* ChunkOf with a slice one id short.
ChunkOfShort(ids, start) == Slice(ids, start, start + ChunkSize - 1)

\* main.py:102: [candidate_ids[i:i + 50] for i in range(0, len(candidate_ids), 50)].
ChunkOf(ids, start) == Slice(ids, start, start + ChunkSize)

Chunks(ids) ==
    LET starts == RangeFrom0(Len(ids), ChunkSize)
    IN  [j \in 1..Len(starts) |-> ChunkOf(ids, starts[j])]

CandUnchanged ==
    UNCHANGED <<accepted_offers, offerLog, task, completed, scorecard_data,
                n429, limit429, candidates_to_offers, k, scorecards_data_for_offers,
                file>>

\* main.py:168: candidate_ids = [offer["candidate_id"] for offer in accepted_offers].
CandidateIdsOf(offers) == [i \in 1..Len(offers) |-> offers[i].candidate_id]

CollectCandidateIds ==
    /\ pc = "candidate_ids"
    /\ candidate_ids' = CandidateIdsOf(accepted_offers)
    /\ pc' = "get_candidates"
    /\ UNCHANGED <<err, page, chunked, ci, candidates, candLog, candidate_data>>
    /\ CandUnchanged

\* main.py:100-104: the call of get_greenhouse_candidates up to its for loop.
EnterGetCandidates ==
    /\ pc = "get_candidates"
    /\ chunked' = Chunks(candidate_ids)
    /\ candidates' = <<>>
    /\ ci' = 0
    /\ pc' = "chunks"
    /\ UNCHANGED <<err, page, candidate_ids, candLog, candidate_data>>
    /\ CandUnchanged

\* main.py:105-107 and 126: the next chunk, or the return when none is left.
NextChunk ==
    /\ pc = "chunks"
    /\ IF ci < Len(chunked)
       THEN /\ ci' = ci + 1
            /\ page' = 1
            /\ pc' = "candidates"
       ELSE /\ pc' = "candidate_data"
            /\ UNCHANGED <<ci, page>>
    /\ UNCHANGED <<err, candidate_ids, chunked, candidates, candLog,
                   candidate_data>>
    /\ CandUnchanged

\* main.py:108-125, one pass of the while loop.
CandidatesPageStep(r) ==
    /\ candLog' = Append(candLog, [chunk |-> ci, ids |-> chunked[ci],
                                   page |-> page, per_page |-> PerPage,
                                   status |-> r.status, body |-> r.body])
    /\ IF RaisesForStatus(r.status)
       THEN /\ Abort("HTTPError", "candidates")
            /\ UNCHANGED <<page, candidates>>
       ELSE IF r.body = <<>>
       THEN /\ pc' = "chunks"
            /\ UNCHANGED <<err, page, candidates>>
       ELSE /\ candidates' = candidates \o r.body
            /\ page' = page + 1
            /\ UNCHANGED <<pc, err>>

FetchCandidatesPage ==
    /\ pc = "candidates"
    /\ \E r \in CandidatesResponses(page) : CandidatesPageStep(r)
    /\ UNCHANGED <<candidate_ids, chunked, ci, candidate_data>>
    /\ CandUnchanged

(***************************************************************************)
(* The join (main.py:170-206) and the report (main.py:209-210).            *)
(***************************************************************************)
JoinUnchanged ==
    UNCHANGED <<page, accepted_offers, offerLog, task, completed,
                scorecard_data, n429, limit429, candidate_ids, chunked, ci, candidates,
                candLog>>

RECURSIVE KeyedByIdKeepFirst(_, _)
\* KeyedById keeping the first record of an id.
KeyedByIdKeepFirst(data, records) ==
    IF records = <<>> THEN data
    ELSE KeyedByIdKeepFirst(
            IF HasKey(data, Head(records).id) THEN data
            ELSE DictPut(data, Head(records).id, Head(records)),
            Tail(records))

RECURSIVE KeyedById(_, _)
\* main.py:170-171: for candidate in candidates: data[candidate["id"]] = candidate.
KeyedById(data, records) ==
    IF records = <<>> THEN data
    ELSE KeyedById(DictPut(data, Head(records).id, Head(records)), Tail(records))

BuildCandidateData ==
    /\ pc = "candidate_data"
    /\ candidate_data' = KeyedById(candidate_data, candidates)
    /\ candidates_to_offers' = <<>>
    /\ k' = 0
    /\ pc' = "count"
    /\ UNCHANGED <<err, scorecards_data_for_offers, file>>
    /\ JoinUnchanged

\* first_name + " " + last_name, as the list of its parts.
FullName(candidate) == <<candidate.first_name, " ", candidate.last_name>>

\* main.py:174-179, one pass of the loop, for offer number k + 1.
CountOffer ==
    /\ pc = "count"
    /\ k < Len(accepted_offers)
    /\ LET offer == accepted_offers[k + 1]
           cid == offer.candidate_id
       IN  IF ~HasKey(candidates_to_offers, cid)
           THEN IF ~HasKey(candidate_data, cid)
                THEN /\ Abort("KeyError", "count")
                     /\ UNCHANGED <<candidates_to_offers, k>>
                ELSE /\ candidates_to_offers' =
                            DictPut(candidates_to_offers, cid,
                                    [name |-> FullName(candidate_data[cid]),
                                     offers |-> 1])
                     /\ k' = k + 1
                     /\ UNCHANGED <<pc, err>>
           ELSE /\ candidates_to_offers' =
                       [candidates_to_offers EXCEPT ![cid].offers = @ + 1]
                /\ k' = k + 1
                /\ UNCHANGED <<pc, err>>
    /\ UNCHANGED <<candidate_data, scorecards_data_for_offers, file>>
    /\ JoinUnchanged

\* main.py:180-185: the counts are printed; the collation loop begins.
BeginCollate ==
    /\ pc = "count"
    /\ k = Len(accepted_offers)
    /\ scorecards_data_for_offers' = <<>>
    /\ k' = 0
    /\ pc' = "collate"
    /\ UNCHANGED <<err, candidate_data, candidates_to_offers, file>>
    /\ JoinUnchanged

\* d["name"] if "name" in d else None; `in` raises TypeError on None.
NameOrNone(d, key) == IF HasKey(d, key) THEN d[key] ELSE None

\* main.py:128-139.
format_scorecard(scorecard) ==
    [interview |-> scorecard.interview,
     interview_step |-> NameOrNone(scorecard.interview_step, "name"),
     submitted_by |-> NameOrNone(scorecard.submitted_by, "name"),
     interviewer |-> NameOrNone(scorecard.interviewer, "name")]

\* The exception format_scorecard raises, "" if none: `"name" in None` is a
\* TypeError (main.py:132-134).
FormatError(scorecard) ==
    IF \/ IsNull(scorecard.interview_step)
       \/ IsNull(scorecard.submitted_by)
       \/ IsNull(scorecard.interviewer)
    THEN "TypeError"
    ELSE ""

\* Indexes of the applications of `candidate` whose id is the offer's
\* application_id.
MatchingApps(candidate, offer) ==
    {j \in 1..Len(candidate.applications) :
        candidate.applications[j].id = offer.application_id}

\* FirstMatch taking the last matching application.
LastMatch(candidate, offer) ==
    LET M == MatchingApps(candidate, offer)
    IN  candidate.applications[CHOOSE j \in M : \A m \in M : j >= m]

\* main.py:189: next(app for app in candidate["applications"] if ...).
FirstMatch(candidate, offer) ==
    LET M == MatchingApps(candidate, offer)
    IN  candidate.applications[CHOOSE j \in M : \A m \in M : j <= m]

\* main.py:201: credited_to["name"] if credited_to else None (None and {} are
\* both false).
CreditedTo(application) ==
    IF IsNull(application.credited_to) \/ application.credited_to = EmptyDict
    THEN None
    ELSE application.credited_to["name"]

\* The exception main.py:201 raises, "" if none: a credited_to that is true
\* (neither None nor {}) is indexed by "name".
CreditedToError(application) ==
    IF /\ ~IsNull(application.credited_to)
       /\ application.credited_to # EmptyDict
       /\ ~HasKey(application.credited_to, "name")
    THEN "KeyError"
    ELSE ""

\* main.py:190-206: the entry of one offer.
Entry(offer, candidate, application, scorecards) ==
    [candidate_name |-> FullName(candidate),
     candidate_data |->
        [recruiter_name |-> NameOrNone(candidate.recruiter, "name")],
     application_id |-> offer.application_id,
     application_data |->
        [source |-> NameOrNone(application.source, "public_name"),
         credited_to |-> CreditedTo(application),
         jobs |-> [j \in 1..Len(application.jobs) |-> application.jobs[j].name]],
     scorecards_data |->
        [j \in 1..Len(scorecards) |-> format_scorecard(scorecards[j])]]

\* The exception the body of the collation loop raises for `offer`, "" if none
\* (main.py:187-189, then the entry's fields in the order they are evaluated).
CollateError(offer) ==
    IF ~HasKey(candidate_data, offer.candidate_id) THEN "KeyError"
    ELSE IF ~HasKey(scorecard_data, offer.application_id) THEN "KeyError"
    ELSE IF MatchingApps(candidate_data[offer.candidate_id], offer) = {}
    THEN "StopIteration"
    ELSE IF IsNull(candidate_data[offer.candidate_id].recruiter)
    THEN "TypeError"
    ELSE IF IsNull(FirstMatch(candidate_data[offer.candidate_id], offer).source)
    THEN "TypeError"
    ELSE IF CreditedToError(FirstMatch(candidate_data[offer.candidate_id], offer)) # ""
    THEN CreditedToError(FirstMatch(candidate_data[offer.candidate_id], offer))
    ELSE IF \E j \in 1..Len(scorecard_data[offer.application_id]) :
               FormatError(scorecard_data[offer.application_id][j]) # ""
    THEN "TypeError"
    ELSE ""

\* CollateOffer reading scorecard_data.get(application_id, []).
CollateOfferDefaultScorecards ==
    /\ pc = "collate"
    /\ k < Len(accepted_offers)
    /\ LET offer == accepted_offers[k + 1]
           missing == /\ HasKey(candidate_data, offer.candidate_id)
                      /\ ~HasKey(scorecard_data, offer.application_id)
                      /\ MatchingApps(candidate_data[offer.candidate_id], offer) # {}
       IN  IF ~missing /\ CollateError(offer) # ""
           THEN /\ Abort(CollateError(offer), "collate")
                /\ UNCHANGED <<scorecards_data_for_offers, k>>
           ELSE LET candidate == candidate_data[offer.candidate_id]
                IN  /\ scorecards_data_for_offers' =
                          DictPut(scorecards_data_for_offers, offer.id,
                                  Entry(offer, candidate,
                                        FirstMatch(candidate, offer),
                                        IF missing THEN <<>>
                                        ELSE scorecard_data[offer.application_id]))
                    /\ k' = k + 1
                    /\ UNCHANGED <<pc, err>>
    /\ UNCHANGED <<candidate_data, candidates_to_offers, file>>
    /\ JoinUnchanged

\* CollateOffer skipping an offer whose application is not found.
CollateOfferSkipMissing ==
    /\ pc = "collate"
    /\ k < Len(accepted_offers)
    /\ LET offer == accepted_offers[k + 1]
       IN  IF CollateError(offer) = "StopIteration"
           THEN /\ k' = k + 1
                /\ UNCHANGED <<pc, err, scorecards_data_for_offers>>
           ELSE IF CollateError(offer) # ""
           THEN /\ Abort(CollateError(offer), "collate")
                /\ UNCHANGED <<scorecards_data_for_offers, k>>
           ELSE LET candidate == candidate_data[offer.candidate_id]
                IN  /\ scorecards_data_for_offers' =
                          DictPut(scorecards_data_for_offers, offer.id,
                                  Entry(offer, candidate,
                                        FirstMatch(candidate, offer),
                                        scorecard_data[offer.application_id]))
                    /\ k' = k + 1
                    /\ UNCHANGED <<pc, err>>
    /\ UNCHANGED <<candidate_data, candidates_to_offers, file>>
    /\ JoinUnchanged

\* main.py:186-206, one pass of the loop, for offer number k + 1.
CollateOffer ==
    /\ pc = "collate"
    /\ k < Len(accepted_offers)
    /\ LET offer == accepted_offers[k + 1]
       IN  IF CollateError(offer) # ""
           THEN /\ Abort(CollateError(offer), "collate")
                /\ UNCHANGED <<scorecards_data_for_offers, k>>
           ELSE LET candidate == candidate_data[offer.candidate_id]
                IN  /\ scorecards_data_for_offers' =
                          DictPut(scorecards_data_for_offers, offer.id,
                                  Entry(offer, candidate,
                                        FirstMatch(candidate, offer),
                                        scorecard_data[offer.application_id]))
                    /\ k' = k + 1
                    /\ UNCHANGED <<pc, err>>
    /\ UNCHANGED <<candidate_data, candidates_to_offers, file>>
    /\ JoinUnchanged

\* json.dump of a dict: its keys become their decimal text.
JsonDump(d) ==
    [t \in {ToString(i) : i \in DOMAIN d} |->
        d[CHOOSE i \in DOMAIN d : ToString(i) = t]]

\* main.py:209-210.
WriteReport ==
    /\ pc = "collate"
    /\ k = Len(accepted_offers)
    /\ file' = Append(file, JsonDump(scorecards_data_for_offers))
    /\ pc' = "done"
    /\ UNCHANGED <<err, candidate_data, candidates_to_offers, k,
                   scorecards_data_for_offers>>
    /\ JoinUnchanged

Init ==
    /\ pc = "offers"
    /\ err = NoError
    /\ page = 1
    /\ accepted_offers = <<>>
    /\ offerLog = <<>>
    /\ task = <<>>
    /\ completed = 0
    /\ scorecard_data = <<>>
    /\ n429 = 0
    /\ limit429 = Max429
    /\ candidate_ids = <<>>
    /\ chunked = <<>>
    /\ ci = 0
    /\ candidates = <<>>
    /\ candLog = <<>>
    /\ candidate_data = <<>>
    /\ candidates_to_offers = <<>>
    /\ k = 0
    /\ scorecards_data_for_offers = <<>>
    /\ file = <<>>

Next ==
    \/ FetchOffersPage
    \/ Submit
    \/ BeginCollect
    \/ \E i \in 1..Len(task) : StartTask(i)
    \/ \E i \in 1..Len(task) : RequestScorecards(i)
    \/ \E i \in 1..Len(task) : WakeTask(i)
    \/ \E i \in 1..Len(task) : Collect(i)
    \/ EndPool
    \/ CollectCandidateIds
    \/ EnterGetCandidates
    \/ NextChunk
    \/ FetchCandidatesPage
    \/ BuildCandidateData
    \/ CountOffer
    \/ BeginCollate
    \/ CollateOffer
    \/ WriteReport

Spec == Init /\ [][Next]_vars

(***************************************************************************)
(* get_greenhouse_candidates on its own: the call with a list of candidate *)
(* ids of any length up to MaxIds, all distinct or repeating three ids.    *)
(***************************************************************************)
DistinctIds(n) == [i \in 1..n |-> i]

RepeatingIds(n) == [i \in 1..n |-> ((i - 1) % 3) + 1]

InitGetCandidates ==
    /\ pc = "get_candidates"
    /\ err = NoError
    /\ page = 1
    /\ accepted_offers = <<>>
    /\ offerLog = <<>>
    /\ task = <<>>
    /\ completed = 0
    /\ scorecard_data = <<>>
    /\ n429 = 0
    /\ limit429 = Max429
    /\ \E n \in 0..MaxIds : candidate_ids \in {DistinctIds(n), RepeatingIds(n)}
    /\ chunked = <<>>
    /\ ci = 0
    /\ candidates = <<>>
    /\ candLog = <<>>
    /\ candidate_data = <<>>
    /\ candidates_to_offers = <<>>
    /\ k = 0
    /\ scorecards_data_for_offers = <<>>
    /\ file = <<>>

NextGetCandidates ==
    \/ EnterGetCandidates
    \/ NextChunk
    \/ FetchCandidatesPage

SpecGetCandidates == InitGetCandidates /\ [][NextGetCandidates]_vars

(***************************************************************************)
(* The collation loop on its own: one offer whose lookups resolve, with    *)
(* every shape of the optional objects of its candidate, application and   *)
(* scorecard.                                                              *)
(***************************************************************************)
\* An optional object that holds a name under `key`: null, empty, without the
\* key, or with it.
OptionalObjects(key) ==
    {Null, EmptyDict, [id |-> "7"], [x \in {key} |-> "Name"]}

CollateCandidate(recruiter, source, credited) ==
    [id |-> 1, first_name |-> "Ada", last_name |-> "Low",
     recruiter |-> recruiter,
     applications |-> <<App(1, source, credited)>>]

CollateScorecard(step, by, interviewer) ==
    [interview |-> "onsite", interview_step |-> step, submitted_by |-> by,
     interviewer |-> interviewer]

InitCollate ==
    /\ pc = "collate"
    /\ err = NoError
    /\ page = 1
    /\ accepted_offers = <<Offer(1, 1, 1)>>
    /\ offerLog = <<>>
    /\ task = <<>>
    /\ completed = 0
    /\ \E step \in OptionalObjects("name"), by \in OptionalObjects("name"),
          interviewer \in OptionalObjects("name") :
          scorecard_data = <<<<CollateScorecard(step, by, interviewer)>>>>
    /\ n429 = 0
    /\ limit429 = Max429
    /\ candidate_ids = <<1>>
    /\ chunked = <<>>
    /\ ci = 0
    /\ candidates = <<>>
    /\ candLog = <<>>
    /\ \E recruiter \in OptionalObjects("name"),
          source \in OptionalObjects("public_name"),
          credited \in OptionalObjects("name") :
          candidate_data = <<CollateCandidate(recruiter, source, credited)>>
    /\ candidates_to_offers = <<>>
    /\ k = 0
    /\ scorecards_data_for_offers = <<>>
    /\ file = <<>>

NextCollate ==
    \/ CollateOffer
    \/ WriteReport

SpecCollate == InitCollate /\ [][NextCollate]_vars

(***************************************************************************)
(* The submission and the workers of the pool on their own, with more      *)
(* offers than workers: the main thread submits while the workers run the  *)
(* tasks; the as_completed loop, which only reads finished futures, is     *)
(* left to Spec.                                                           *)
(***************************************************************************)
\* Offers of the pool on its own: one more than the pool has workers.
PoolOffers == 7

InitPool ==
    /\ pc = "submit"
    /\ err = NoError
    /\ page = 2
    /\ accepted_offers = [i \in 1..PoolOffers |-> Offer(i, i, i)]
    /\ offerLog = <<>>
    /\ task = <<>>
    /\ completed = 0
    /\ scorecard_data = <<>>
    /\ n429 = 0
    /\ limit429 = Max429
    /\ candidate_ids = <<>>
    /\ chunked = <<>>
    /\ ci = 0
    /\ candidates = <<>>
    /\ candLog = <<>>
    /\ candidate_data = <<>>
    /\ candidates_to_offers = <<>>
    /\ k = 0
    /\ scorecards_data_for_offers = <<>>
    /\ file = <<>>

NextPool ==
    \/ Submit
    \/ \E i \in 1..Len(task) : StartTask(i)
    \/ \E i \in 1..Len(task) : RequestScorecards(i)
    \/ \E i \in 1..Len(task) : WakeTask(i)

SpecPool == InitPool /\ [][NextPool]_vars

(***************************************************************************)
(* The scorecard phase of one offer against a server that may go on        *)
(* answering 429 for as long as the interpreter's stack lasts.             *)
(***************************************************************************)
InitRateLimited ==
    /\ pc = "submit"
    /\ err = NoError
    /\ page = 2
    /\ accepted_offers = <<Offer(1, 1, 1)>>
    /\ offerLog = <<>>
    /\ task = <<>>
    /\ completed = 0
    /\ scorecard_data = <<>>
    /\ n429 = 0
    /\ limit429 = RecursionLimit
    /\ candidate_ids = <<>>
    /\ chunked = <<>>
    /\ ci = 0
    /\ candidates = <<>>
    /\ candLog = <<>>
    /\ candidate_data = <<>>
    /\ candidates_to_offers = <<>>
    /\ k = 0
    /\ scorecards_data_for_offers = <<>>
    /\ file = <<>>

NextRateLimited ==
    \/ Submit
    \/ BeginCollect
    \/ \E i \in 1..Len(task) : StartTask(i)
    \/ \E i \in 1..Len(task) : RequestScorecards(i)
    \/ \E i \in 1..Len(task) : WakeTask(i)
    \/ \E i \in 1..Len(task) : Collect(i)
    \/ EndPool

SpecRateLimited == InitRateLimited /\ [][NextRateLimited]_vars

\* The same with a fair scheduler: a thread that can run is run, a sleep ends,
\* and the server answers every request.
FairRateLimited == SpecRateLimited /\ WF_vars(NextRateLimited)

(***************************************************************************)
(* Properties.                                                             *)
(***************************************************************************)
Bodies(log) == [i \in 1..Len(log) |-> log[i].body]

\* The requests of `log` are for pages 1, 2, ... in order, and every response
\* but the last was a success with a non-empty body.
PagesInOrder(log) ==
    \A i \in 1..Len(log) :
        /\ log[i].page = i
        /\ i < Len(log) => log[i].status = 200 /\ log[i].body # <<>>

\* The fetch that made `log` has returned: its last response was the first
\* empty page.
EndsWithEmptyPage(log) ==
    /\ log # <<>>
    /\ log[Len(log)].status = 200
    /\ log[Len(log)].body = <<>>

OffersReturned == pc # "offers" /\ err.at # "offers"

\* The requests made for chunk number c.
ChunkLog(c) == SelectSeq(candLog, LAMBDA e : e.chunk = c)

\* The while loop of chunk number c has ended by its break.
ChunkDone(c) ==
    /\ c <= ci
    /\ c = ci => pc # "candidates" /\ err.at # "candidates"

\* C1: a paginated fetch (the offers fetch, and the loop of each chunk of the
\* candidates fetch) requests the pages 1, 2, ..., k+1 in increasing order,
\* each once, where page k+1 is the first empty one, requests nothing after
\* it, and has accumulated exactly the bodies of the pages 1..k, in order.
C1_PaginatedFetch ==
    /\ PagesInOrder(offerLog)
    /\ OffersReturned =>
          /\ EndsWithEmptyPage(offerLog)
          /\ accepted_offers = Flatten(Bodies(offerLog))
    /\ \A c \in 1..Len(chunked) :
          /\ PagesInOrder(ChunkLog(c))
          /\ ChunkDone(c) => EndsWithEmptyPage(ChunkLog(c))
    /\ candidates = Flatten(Bodies(candLog))

\* Both fetches have returned after two non-empty pages each, the offers'
\* pages of sizes 1 and 2.
C1_Witness ==
    /\ pc = "candidate_data"
    /\ Len(offerLog) = 3
    /\ Len(offerLog[1].body) = 1
    /\ Len(offerLog[2].body) = 2
    /\ Len(candLog) = 3
    /\ Len(candidates) = 3

Tasks == 1..Len(task)

\* The seconds a 429 response with these headers asks to wait: the number in
\* its Retry-After header, 10 without one.
AskedWait(headers) ==
    IF "RetryAfter" \in DOMAIN headers
    THEN (IF headers["RetryAfter"] = "3" THEN 3 ELSE 12)
    ELSE 10

\* C2: after a 429 response a scorecard fetch sleeps at least the Retry-After
\* of that response (10 without the header) before its next request, every
\* request of the task is for the task's application id, and what the task
\* returns is the body of its first response that is not a 429, a success.
C2_RateLimitRetry ==
    \A i \in Tasks :
        LET t == task[i]
        IN  /\ \A j \in 1..Len(t.reqs) : t.reqs[j] = t.app
            /\ t.st = "sleeping" => t.status = 429
            /\ t.st = "running" /\ t.reqs # <<>> =>
                  /\ t.status = 429
                  /\ t.naps = Len(t.reqs)
                  /\ t.slept >= AskedWait(t.headers)
                  /\ t.arg = t.app
            /\ t.st = "done" =>
                  /\ t.status = 200
                  /\ t.result = t.body
                  /\ t.naps = Len(t.reqs) - 1

\* A task has returned a non-empty body on its second request, after a 429.
C2_Witness ==
    \E i \in Tasks :
        /\ task[i].st = "done"
        /\ Len(task[i].reqs) = 2
        /\ task[i].result # <<>>

\* C7: in the offers fetch and in the candidates fetch a response with a
\* failing status (429 included) is the last request of the run: the fetch
\* raises, what it had accumulated is not handed on, and nothing is written.
FailedPage(log) == \E i \in 1..Len(log) : log[i].status # 200

C7_PaginatedFetchFails ==
    /\ FailedPage(offerLog) =>
          /\ offerLog[Len(offerLog)].status # 200
          /\ pc = "aborted"
          /\ err = [type |-> "HTTPError", at |-> "offers"]
          /\ task = <<>>
          /\ candLog = <<>>
          /\ file = <<>>
    /\ FailedPage(candLog) =>
          /\ candLog[Len(candLog)].status # 200
          /\ pc = "aborted"
          /\ err = [type |-> "HTTPError", at |-> "candidates"]
          /\ candidate_data = <<>>
          /\ scorecards_data_for_offers = <<>>
          /\ file = <<>>

\* The candidates fetch was answered 429 on its second page.
C7_Witness ==
    /\ pc = "aborted"
    /\ Len(candLog) = 2
    /\ candLog[2].status = 429
    /\ candidates # <<>>
    /\ accepted_offers # <<>>

\* C8: a scorecard response with a failing status other than 429 fails the
\* task at once: it does not sleep for it and requests nothing more, also
\* when the response follows 429 retries.
C8_State ==
    \A i \in Tasks :
        LET t == task[i]
        IN  /\ (t.reqs # <<>> /\ t.status \notin {200, 429}) =>
                  /\ t.st = "failed"
                  /\ t.naps = Len(t.reqs) - 1
            /\ t.st = "failed" => t.status \notin {200, 429}

C8_Step ==
    \A i \in Tasks :
        task[i].st = "failed" =>
            /\ task'[i].st = "failed"
            /\ task'[i].reqs = task[i].reqs
            /\ task'[i].naps = task[i].naps

C8_NonRetryFailure == [](C8_State) /\ [][C8_Step]_vars

\* A task has failed on the request it made after a 429 and its sleep.
C8_Witness ==
    \E i \in Tasks :
        /\ task[i].st = "failed"
        /\ Len(task[i].reqs) = 2
        /\ task[i].naps = 1

Done(i) == task[i].st = "done"

Failed(i) == task[i].st = "failed"

\* The as_completed loop has ended.
PoolOver == pc \notin {"offers", "submit", "collect"} /\ err.at \notin {"offers", "collect"}

\* The successful tasks for application id a that have been collected.
StoredFor(a) == {i \in Tasks : Done(i) /\ task[i].app = a /\ task[i].collected # 0}

\* Among them, the one collected last.
LastStored(a) ==
    CHOOSE i \in StoredFor(a) :
        \A j \in StoredFor(a) : task[j].collected <= task[i].collected

ExactlyOneFailed == Cardinality({i \in Tasks : Failed(i)}) = 1

\* Every task ran to its end and was collected once.
AllCollected ==
    /\ Len(task) = Len(accepted_offers)
    /\ completed = Len(task)
    /\ \A i \in Tasks : Finished(i) /\ task[i].collected \in 1..completed
    /\ \A i, j \in Tasks : i # j => task[i].collected # task[j].collected

\* C3 as claimed: when one task raised, scorecard_data holds the result of
\* each of the others.
C3_AsClaimed ==
    PoolOver /\ ExactlyOneFailed =>
        \A j \in Tasks :
            Done(j) => /\ HasKey(scorecard_data, task[j].app)
                       /\ scorecard_data[task[j].app] = task[j].result

\* C3, amended: a task that raises does not end the run and no task is
\* cancelled: every task runs to its end and is collected; when one task
\* raised, scorecard_data has an entry for the application id of each of the
\* others, holding the result of the successful task with that application id
\* that was collected last.
C3_PartialFailure ==
    /\ err.at # "collect"
    /\ PoolOver => AllCollected
    /\ PoolOver /\ ExactlyOneFailed =>
          \A j \in Tasks :
              Done(j) =>
                  /\ HasKey(scorecard_data, task[j].app)
                  /\ scorecard_data[task[j].app] =
                        task[LastStored(task[j].app)].result

\* Of three tasks one raised and was collected first; the two others
\* succeeded.
C3_Witness ==
    /\ PoolOver
    /\ Len(task) = 3
    /\ ExactlyOneFailed
    /\ \E i \in Tasks : Failed(i) /\ task[i].collected = 1
    /\ Cardinality(DOMAIN scorecard_data) = 2

\* C9 as claimed: after the phase scorecard_data maps the application id of
\* every task that succeeded to what that task returned.
C9_AsClaimed ==
    PoolOver =>
        \A i \in Tasks :
            Done(i) => /\ HasKey(scorecard_data, task[i].app)
                       /\ scorecard_data[task[i].app] = task[i].result

\* The successful tasks with the application id of task i returned what it
\* returned.
SameAppAgrees(i) ==
    \A j \in Tasks :
        Done(j) /\ task[j].app = task[i].app => task[j].result = task[i].result

\* C9, amended: at every moment scorecard_data has exactly the application
\* ids of the successful tasks collected so far, each mapped to the result of
\* the one collected last; so after the phase a task's application id maps to
\* that task's result, whatever the completion order, whenever the successful
\* tasks that share its application id returned the same scorecards.
C9_KeyedByApplication ==
    /\ DOMAIN scorecard_data = {task[i].app : i \in {j \in Tasks : Done(j) /\ task[j].collected # 0}}
    /\ \A a \in DOMAIN scorecard_data :
          scorecard_data[a] = task[LastStored(a)].result
    /\ PoolOver =>
          \A i \in Tasks :
              Done(i) /\ SameAppAgrees(i) =>
                  /\ HasKey(scorecard_data, task[i].app)
                  /\ scorecard_data[task[i].app] = task[i].result

\* Two tasks of one application id returned different scorecards and the one
\* submitted first was collected after the other.
C9_Witness ==
    /\ PoolOver
    /\ \E i, j \in Tasks :
          /\ i < j
          /\ Done(i) /\ Done(j)
          /\ task[i].app = task[j].app
          /\ task[i].result # task[j].result
          /\ task[i].collected > task[j].collected

\* C10 as claimed: after the phase scorecard_data has no entry for the
\* application id of a task that raised.
C10_AsClaimed ==
    PoolOver =>
        \A i \in Tasks : Failed(i) => ~HasKey(scorecard_data, task[i].app)

\* C10, amended: after the phase, and in every later step, scorecard_data has
\* an entry for the application id of a task that raised exactly when the task
\* of another offer with that application id succeeded.
C10_FailedTaskEntry ==
    PoolOver =>
        \A i \in Tasks :
            Failed(i) =>
                (HasKey(scorecard_data, task[i].app)
                    <=> \E j \in Tasks : Done(j) /\ task[j].app = task[i].app)

\* The run reached the join with two failed tasks: one whose application id
\* has the entry of another offer's task, one whose application id has none.
C10_Witness ==
    /\ pc = "aborted"
    /\ err.at = "collate"
    /\ \E i, j \in Tasks :
          /\ Failed(i) /\ HasKey(scorecard_data, task[i].app)
          /\ Failed(j) /\ ~HasKey(scorecard_data, task[j].app)

Offers == 1..Len(accepted_offers)

\* The offers the collation loop has done.
Collated == IF pc \in {"collate", "done"} \/ err.at = "collate" THEN 1..k ELSE {}

\* The application of candidate c that offer o names: the first one of c's
\* list with the offer's application id.
ApplicationOf(c, o) ==
    LET first == CHOOSE j \in 1..Len(c.applications) :
                    /\ c.applications[j].id = o.application_id
                    /\ \A m \in 1..(j - 1) :
                          c.applications[m].id # o.application_id
    IN  c.applications[first]

\* Entry e is the one of offer o.
EntryMatches(e, o) ==
    LET c == candidate_data[o.candidate_id]
        a == ApplicationOf(c, o)
        cards == scorecard_data[o.application_id]
    IN  /\ e.application_id = o.application_id
        /\ e.candidate_name = <<c.first_name, " ", c.last_name>>
        /\ e.candidate_data.recruiter_name =
              (IF "name" \in DOMAIN c.recruiter THEN c.recruiter.name ELSE None)
        /\ e.application_data.source =
              (IF "public_name" \in DOMAIN a.source
               THEN a.source.public_name ELSE None)
        /\ e.application_data.credited_to =
              (IF "name" \in DOMAIN a.credited_to
               THEN a.credited_to.name ELSE None)
        /\ Len(e.application_data.jobs) = Len(a.jobs)
        /\ Len(e.scorecards_data) = Len(cards)
        /\ \A n \in 1..Len(cards) :
              e.scorecards_data[n].interview = cards[n].interview

\* C4: the output mapping has exactly the ids of the offers collated (of all
\* the accepted offers when it is written), and the entry of an offer id is
\* built from that offer's candidate, the first application of the candidate
\* with the offer's application id, and the scorecards of that application
\* id; the file written holds that mapping.
C4_Collation ==
    /\ DOMAIN scorecards_data_for_offers =
          {accepted_offers[j].id : j \in Collated}
    /\ \A j \in Collated :
          EntryMatches(scorecards_data_for_offers[accepted_offers[j].id],
                       accepted_offers[j])
    /\ pc = "done" =>
          /\ Collated = Offers
          /\ Len(file) = 1
          /\ DOMAIN file[1] = {ToString(accepted_offers[j].id) : j \in Offers}
          /\ \A j \in Offers :
                file[1][ToString(accepted_offers[j].id)] =
                    scorecards_data_for_offers[accepted_offers[j].id]

\* The report of three offers of two candidates is written; the application
\* of the first offer is listed twice by its candidate.
C4_Witness ==
    /\ pc = "done"
    /\ Len(accepted_offers) = 3
    /\ Cardinality(DOMAIN file[1]) = 3
    /\ Len(candidate_data[accepted_offers[1].candidate_id].applications) = 2
    /\ \E a \in DOMAIN scorecard_data : scorecard_data[a] # <<>>

\* Offer o names a candidate that was not fetched, or an application that
\* its candidate does not list.
Unresolved(o) ==
    \/ o.candidate_id \notin DOMAIN candidate_data
    \/ \A j \in 1..Len(candidate_data[o.candidate_id].applications) :
          candidate_data[o.candidate_id].applications[j].id # o.application_id

JoinStarted == pc \in {"count", "collate", "done"} \/ err.at \in {"count", "collate"}

\* C6: when an accepted offer's candidate was not fetched, or the candidate
\* lists no application with the offer's application id, the collation never
\* gets past that offer and nothing is ever written.
C6_MissingLookupFatal ==
    JoinStarted =>
        /\ \A j \in Collated : ~Unresolved(accepted_offers[j])
        /\ (\E j \in Offers : Unresolved(accepted_offers[j])) =>
              /\ pc # "done"
              /\ file = <<>>
              /\ ~(pc = "collate" /\ k = Len(accepted_offers))

\* The run ended at an offer whose application its candidate does not list,
\* after the collation of an offer that did resolve.
C6_Witness ==
    /\ pc = "aborted"
    /\ err = [type |-> "StopIteration", at |-> "collate"]
    /\ k >= 1
    /\ scorecards_data_for_offers # <<>>
    /\ file = <<>>

\* The least n with 50 * n >= len: ceil(len / 50).
CeilOver50(len) == CHOOSE n \in 0..len : 50 * n >= len /\ 50 * (n - 1) < len

\* The records fetched for chunk number c.
ChunkResult(c) == Flatten(Bodies(ChunkLog(c)))

\* C5: get_greenhouse_candidates splits a list of L ids into ceil(L/50)
\* chunks, none empty and none longer than 50, which concatenated are the
\* list; it runs one paginated fetch per chunk, in the order of the chunks,
\* each request carrying the ids of its chunk, and returns the per-chunk
\* results concatenated; for an empty list it requests nothing and returns
\* an empty list.
C5_Chunking ==
    pc # "get_candidates" =>
        /\ Len(chunked) = CeilOver50(Len(candidate_ids))
        /\ \A c \in 1..Len(chunked) :
              Len(chunked[c]) >= 1 /\ Len(chunked[c]) <= 50
        /\ Flatten(chunked) = candidate_ids
        /\ \A n \in 1..Len(candLog) :
              /\ candLog[n].chunk \in 1..ci
              /\ candLog[n].ids = chunked[candLog[n].chunk]
              /\ n > 1 => candLog[n - 1].chunk <= candLog[n].chunk
        /\ \A c \in 1..Len(chunked) :
              /\ PagesInOrder(ChunkLog(c))
              /\ c > ci => ChunkLog(c) = <<>>
        /\ pc = "candidate_data" =>
              /\ ci = Len(chunked)
              /\ \A c \in 1..Len(chunked) : EndsWithEmptyPage(ChunkLog(c))
              /\ candidates =
                    Flatten([c \in 1..Len(chunked) |-> ChunkResult(c)])
        /\ candidate_ids = <<>> => candLog = <<>> /\ candidates = <<>>

\* The call with 101 ids, some repeated, has returned after three fetches,
\* the last for a chunk of one id, with records of more than one chunk.
C5_Witness ==
    /\ pc = "candidate_data"
    /\ Len(candidate_ids) = 101
    /\ candidate_ids[4] = 1
    /\ Len(chunked) = 3
    /\ Len(chunked[3]) = 1
    /\ ChunkResult(1) # <<>>
    /\ ChunkResult(3) # <<>>

\* The candidates fetch has returned.
CandidatesReturned ==
    /\ ci = Len(chunked)
    /\ \A c \in 1..Len(chunked) : EndsWithEmptyPage(ChunkLog(c))
    /\ pc \notin {"offers", "submit", "collect", "candidate_ids",
                  "get_candidates", "chunks", "candidates"}
    /\ err.at \notin {"offers", "candidates"}

\* C13: no scorecard task exists, and so no scorecard request is made, before
\* the offers fetch has returned; no candidates request is made before every
\* scorecard task has finished and been collected; the join starts only after
\* the candidates fetch has returned; the file is written at most once, and
\* only when every offer has been collated.
C13_PhaseOrder ==
    /\ task # <<>> => OffersReturned
    /\ (candLog # <<>> \/ pc \in {"candidate_ids", "get_candidates", "chunks",
                                  "candidates"}) =>
          /\ OffersReturned
          /\ Len(task) = Len(accepted_offers)
          /\ \A i \in Tasks : Finished(i) /\ task[i].collected # 0
    /\ (JoinStarted \/ candidate_data # <<>>
            \/ scorecards_data_for_offers # <<>>) => CandidatesReturned
    /\ Len(file) <= 1
    /\ file # <<>> =>
          /\ pc = "done"
          /\ k = Len(accepted_offers)
          /\ DOMAIN scorecards_data_for_offers =
                {accepted_offers[j].id : j \in Offers}

\* The report of three offers is written after a scorecard task was rate
\* limited and the candidates came on two pages.
C13_Witness ==
    /\ pc = "done"
    /\ Len(file) = 1
    /\ Len(accepted_offers) = 3
    /\ \E i \in Tasks : Len(task[i].reqs) = 2
    /\ Len(candLog) = 3

\* C14: scorecard_data changes only in a step of the collecting loop, which
\* stores the result of one finished task that it had not yet collected,
\* while no worker moves; so every write is the main thread's and no two
\* writes overlap.
C14_Write ==
    scorecard_data' # scorecard_data =>
        /\ pc = "collect"
        /\ completed' = completed + 1
        /\ \E i \in Tasks :
              /\ task[i].st = "done"
              /\ task[i].collected = 0
              /\ task'[i].collected = completed'
              /\ scorecard_data' =
                    [a \in DOMAIN scorecard_data \cup {task[i].app} |->
                        IF a = task[i].app THEN task[i].result
                        ELSE scorecard_data[a]]
              /\ \A j \in Tasks \ {i} : task'[j] = task[j]
              /\ task'[i].st = task[i].st /\ task'[i].reqs = task[i].reqs

C14_SingleWriter == [][C14_Write]_vars

\* A result is stored while another task is still running.
C14_Witness ==
    /\ pc = "collect"
    /\ scorecard_data # <<>>
    /\ \E i \in Tasks : task[i].st \in {"running", "sleeping"}

\* Offer number j has no scorecards entry for its application id.
NoScorecards(j) == accepted_offers[j].application_id \notin DOMAIN scorecard_data

\* C16: when after the scorecard phase an offer's application id has no entry
\* in scorecard_data, the collation never gets past that offer, it raises
\* KeyError when it reaches it with its candidate present, and the file is
\* never written: whenever the file is written every offer's application id
\* has an entry.
C16_MissingScorecardsFatal ==
    PoolOver =>
        /\ \A j \in Offers :
              NoScorecards(j) =>
                  /\ j \notin Collated
                  /\ file = <<>>
                  /\ pc # "done"
        /\ (err.at = "collate" /\ NoScorecards(k + 1)
                /\ HasKey(candidate_data, accepted_offers[k + 1].candidate_id))
              => err.type = "KeyError"
        /\ file # <<>> => \A j \in Offers : ~NoScorecards(j)

\* The collation raised KeyError at an offer whose task had raised, after the
\* collation of another offer.
C16_Witness ==
    /\ pc = "aborted"
    /\ err = [type |-> "KeyError", at |-> "collate"]
    /\ k >= 1
    /\ NoScorecards(k + 1)
    /\ Failed(k + 1)
    /\ file = <<>>

\* The positions of the records with id `id` in the list the fetch returned.
PositionsOf(id) == {n \in 1..Len(candidates) : candidates[n].id = id}

CandidateDataBuilt == JoinStarted

\* C17: the candidates fetch returns every record it was served, repeated ids
\* included, and candidate_data then has one record per id returned: the last
\* one with that id in the order fetched.
C17_LastRecordWins ==
    /\ candidates = Flatten(Bodies(candLog))
    /\ CandidateDataBuilt =>
          /\ DOMAIN candidate_data = {candidates[n].id : n \in 1..Len(candidates)}
          /\ \A id \in DOMAIN candidate_data :
                \E n \in PositionsOf(id) :
                    /\ \A m \in PositionsOf(id) : m <= n
                    /\ candidate_data[id] = candidates[n]

\* Two different records of id 1 were fetched; candidate_data holds the later.
C17_Witness ==
    /\ CandidateDataBuilt
    /\ Len(candidates) = 3
    /\ candidates[1].id = 1
    /\ candidates[3].id = 1
    /\ candidates[1] # candidates[3]
    /\ candidate_data[1] = candidates[3]

\* The offer of the collation on its own, its candidate, application and
\* scorecard.
TheCandidate == candidate_data[1]

TheApplication == TheCandidate.applications[1]

TheScorecard == scorecard_data[1][1]

LacksName(d, key) == key \notin DOMAIN d

\* C11: whenever an optional object (the candidate's recruiter, the
\* application's source or credited_to, the scorecard's interview_step,
\* submitted_by or interviewer) lacks its name, being null or having no name
\* key, the collation does not fail and the output field is null.
C11_MissingNameDefaults ==
    /\ pc # "aborted"
    /\ k = 1 =>
          LET e == scorecards_data_for_offers[1]
          IN  /\ LacksName(TheCandidate.recruiter, "name")
                    => e.candidate_data.recruiter_name = None
              /\ LacksName(TheApplication.source, "public_name")
                    => e.application_data.source = None
              /\ LacksName(TheApplication.credited_to, "name")
                    => e.application_data.credited_to = None
              /\ LacksName(TheScorecard.interview_step, "name")
                    => e.scorecards_data[1].interview_step = None
              /\ LacksName(TheScorecard.submitted_by, "name")
                    => e.scorecards_data[1].submitted_by = None
              /\ LacksName(TheScorecard.interviewer, "name")
                    => e.scorecards_data[1].interviewer = None

\* The tasks that hold a worker: running a request, or sleeping out a
\* Retry-After delay.
HoldingWorker == {i \in 1..Len(task) : task[i].st \in {"running", "sleeping"}}

\* C12: the tasks are submitted one per offer, in the offers' order, and at
\* most 6 of them are in progress at once, a task sleeping out a Retry-After
\* delay counted among them.
C12_BoundedPool ==
    /\ Len(task) <= Len(accepted_offers)
    /\ \A i \in 1..Len(task) : task[i].app = accepted_offers[i].application_id
    /\ Cardinality(HoldingWorker) <= 6

\* Six tasks hold the six workers, one of them asleep, and a seventh submitted
\* task waits in the queue.
C12_Witness ==
    /\ Len(task) = 7
    /\ Cardinality(HoldingWorker) = 6
    /\ \E i \in HoldingWorker : task[i].st = "sleeping"
    /\ task[7].st = "queued"

\* Every task collected so far had finished and was collected once; after the
\* phase every task has been collected and completed is the number of offers.
CollectedOnce ==
    /\ completed <= Len(task)
    /\ \A i \in Tasks :
          task[i].collected # 0 => Finished(i) /\ task[i].collected \in 1..completed
    /\ \A i, j \in Tasks :
          i # j /\ task[i].collected # 0 => task[i].collected # task[j].collected
    /\ PoolOver => AllCollected

\* Once the offers are fetched the scorecard phase ends (it holds of
\* FairRateLimited: the recursion limit ends the retries of any task).
PhaseEnds == (pc = "submit") ~> (pc = "candidate_ids")

\* C15: every submitted task is collected exactly once and the completed
\* counter ends at the number of offers; a fetch is retried for as long as the
\* server answers 429, without an upper bound, so that a task finishes only
\* upon an answer other than 429.
C15_AsClaimed ==
    /\ CollectedOnce
    /\ \A i \in Tasks : Finished(i) => task[i].status # 429
====
